---- MODULE Spec2Model ----
(***************************************************************************)
(* Model of src/drone_detector.py: the DroneDetector object, its producer  *)
(* threads (SDR callback, Wi-Fi sniffer), the consumer loop                *)
(* process_detections, the Flask readers and the main thread               *)
(* (start / stop / save_data).                                             *)
(*                                                                         *)
(* Python dicts are functions whose DOMAIN is the set of keys; a dict      *)
(* object lives in `heap` under a reference, so that the aliasing the code *)
(* creates (the same dict stored in detected_drones and appended to        *)
(* detection_history) is kept.  A reference is allocated when a producer   *)
(* builds the detection dict, so references also give the enqueue order.   *)
(***************************************************************************)
EXTENDS Integers, Sequences, FiniteSets, TLC

VARIABLES
    running,            \* self.running
    heap,               \* reference -> dict object (the detection dicts)
    detection_queue,    \* self.detection_queue: sequence of references
    detected_drones,    \* self.detected_drones: drone id -> reference
    detection_history,  \* self.detection_history: sequence of references
    stats,              \* self.stats
    pcMain,             \* main thread: position in main()/start()/stop()
    pcConsumer,         \* process_detections thread: position
    detection,          \* process_detections: local `detection` (reference)
    pcSdr,              \* start_sdr_detection thread: position
    pcWifi,             \* start_wifi_detection thread: position
    pcApi,              \* Flask thread: position in the request being served
    apiLocal,           \* Flask thread: locals of the handler being run
    saved,              \* the document save_data wrote (NoDoc before)
    budget,             \* detections the sensors may still deliver (model cap)
    applied,            \* history variable: references whose Apply completed, in order
    pendingAtStop,      \* history variable: references queued when stop() cleared running
    interrupted,        \* history variable: Ctrl+C reached the handler of start()
    readSince           \* history variable: the consumer's progress when a read began

vars == <<running, heap, detection_queue, detected_drones, detection_history,
          stats, pcMain, pcConsumer, detection, pcSdr, pcWifi, pcApi, apiLocal,
          saved, budget, applied, pendingAtStop, interrupted, readSince>>

----------------------------------------------------------------------------
(* Bounds of the model: the detections the sensors deliver in one run, for *)
(* the whole program (Spec, SpecHist) and for the ingestion path alone      *)
(* (SpecIngest)                                                              *)

MaxEvents == 2
IngestEvents == 3

(* Inputs.  The SDR ids are f"RF_{int(freq)}_{int(time.time())}", the Wi-Fi *)
(* ids f"WIFI_{bssid[-6:]}".  Timestamps are datetime.now(), local wall     *)
(* clock time, which can step back: any instant may follow any other.       *)
(* Signals are samples of (power, estimated location): one below the        *)
(* detection threshold and two above it.                                    *)

SdrIds == {"RF_2400_1000", "RF_2400_1001"}
WifiIds == {"WIFI_a1b2c3"}
DroneIds == SdrIds \cup WifiIds
Timestamps == {1, 2}
ConstructionTime == CHOOSE t \in Timestamps : \A u \in Timestamps : t <= u
Signals == {[power |-> -70, location |-> "locA"],
            [power |-> -45, location |-> "locA"],
            [power |-> -50, location |-> "locB"]}

(* Program constants *)

signal_threshold == -60
HistoryCap == 1000
QueueMaxsize == 0

----------------------------------------------------------------------------
(* Python dict and list helpers *)

HasKey(d, k) == k \in DOMAIN d

SetItem(d, k, v) == [x \in (DOMAIN d) \cup {k} |-> IF x = k THEN v ELSE d[x]]

LastN(s, n) == IF Len(s) <= n THEN s ELSE SubSeq(s, Len(s) - n + 1, Len(s))

Range(s) == {s[i] : i \in 1..Len(s)}

NoDict == [k \in {} |-> 0]

NoDoc == [kind |-> "none"]

----------------------------------------------------------------------------
(* Construction: DroneDetector.__init__ *)

InitWith(n) ==
    /\ running = FALSE
    /\ heap = <<>>
    /\ detection_queue = <<>>
    /\ detected_drones = NoDict
    /\ detection_history = <<>>
    /\ stats = [total_detections |-> 0, unique_drones |-> {},
                last_update |-> ConstructionTime]
    /\ pcMain = "init"
    /\ pcConsumer = "off"
    /\ detection = 0
    /\ pcSdr = "off"
    /\ pcWifi = "off"
    /\ pcApi = "off"
    /\ apiLocal = NoDoc
    /\ saved = NoDoc
    /\ budget = n
    /\ applied = <<>>
    /\ pendingAtStop = {}
    /\ interrupted = FALSE
    /\ readSince = <<0, "idle">>

Init == InitWith(MaxEvents)

InitIngest == InitWith(IngestEvents)

----------------------------------------------------------------------------
(* queue.Queue(maxsize).put: with maxsize <= 0 the queue is unbounded and   *)
(* put never blocks or fails; with maxsize > 0 put blocks while full.       *)

PutBlocks(q) == QueueMaxsize > 0 /\ Len(q) >= QueueMaxsize

(* The detection dict built by sdr_callback *)
SdrDetection(id, power, ts, loc) ==
    [id |-> id, type |-> "RF_SIGNAL", power |-> power, timestamp |-> ts,
     source |-> "SDR", location |-> loc]

(* The detection dict built by start_wifi_detection *)
WifiDetection(id, power, ts, loc) ==
    [id |-> id, type |-> "DJI", power |-> power, timestamp |-> ts,
     source |-> "Wi-Fi", location |-> loc]

(* Mutant of Enqueue: a put without the queue's lock, which writes over the *)
(* last waiting item instead of adding after it                              *)
EnqueueUnlocked(d) ==
    /\ ~PutBlocks(detection_queue)
    /\ heap' = Append(heap, d)
    /\ detection_queue' =
          IF detection_queue = <<>>
          THEN <<Len(heap) + 1>>
          ELSE [detection_queue EXCEPT ![Len(detection_queue)] = Len(heap) + 1]
    /\ budget' = budget - 1

(* A sensor thread allocates the dict and puts it on the queue *)
Enqueue(d) ==
    /\ ~PutBlocks(detection_queue)
    /\ heap' = Append(heap, d)
    /\ detection_queue' = Append(detection_queue, Len(heap) + 1)
    /\ budget' = budget - 1

(* sdr_callback: one block of samples; a detection only above the threshold. *)
(* datetime.now() is local wall-clock time, which is not monotonic.          *)
(* The thread stands in read_samples_async (line 144), which delivers the    *)
(* blocks to the callback and returns only after cancel_read_async; that     *)
(* call is at line 149, behind it, so the test of running at line 146 is not *)
(* reached while the device delivers, and the callback does not test it.     *)
SdrCallback ==
    /\ pcSdr = "reading"
    /\ budget > 0
    /\ \E sig \in Signals, id \in SdrIds, ts \in Timestamps :
          /\ sig.power > signal_threshold
          /\ Enqueue(SdrDetection(id, sig.power, ts, sig.location))
    /\ UNCHANGED <<running, detected_drones, detection_history, stats, pcMain,
                   pcConsumer, detection, pcSdr, pcWifi, pcApi, apiLocal, saved,
                   applied, pendingAtStop, interrupted, readSince>>

(* start_wifi_detection: one sniffed packet of a known drone OUI while running *)
WifiPacket ==
    /\ pcWifi = "sniff"
    /\ running
    /\ budget > 0
    /\ \E sig \in Signals, id \in WifiIds, ts \in Timestamps :
          /\ sig.power > signal_threshold
          /\ Enqueue(WifiDetection(id, sig.power, ts, sig.location))
    /\ UNCHANGED <<running, detected_drones, detection_history, stats, pcMain,
                   pcConsumer, detection, pcSdr, pcWifi, pcApi, apiLocal, saved,
                   applied, pendingAtStop, interrupted, readSince>>

(* start_wifi_detection: a packet arrives after running was cleared: break *)
WifiBreak ==
    /\ pcWifi = "sniff"
    /\ ~running
    /\ pcWifi' = "done"
    /\ UNCHANGED <<running, heap, detection_queue, detected_drones, detection_history,
                   stats, pcMain, pcConsumer, detection, pcSdr, pcApi, apiLocal, saved,
                   budget, applied, pendingAtStop, interrupted, readSince>>

----------------------------------------------------------------------------
(* process_detections: the consumer loop.  One action per statement that    *)
(* reads or writes state shared with another thread.                        *)

ConsumerVarsKept ==
    <<running, pcMain, pcSdr, pcWifi, pcApi, apiLocal, saved, budget, pendingAtStop, interrupted, readSince>>

(* line 248: while self.running *)
ConsumerWhile ==
    /\ pcConsumer = "while"
    /\ pcConsumer' = IF running THEN "get" ELSE "done"
    /\ UNCHANGED <<heap, detection_queue, detected_drones, detection_history, stats,
                   detection, applied>>
    /\ UNCHANGED ConsumerVarsKept

(* lines 252-255: where the iteration goes after the dequeue.  detection['id'] *)
(* raises KeyError on a dict without the key; the handler of line 280 catches  *)
(* it and the loop goes on.  detected_drones is written by this thread only.   *)
AfterGet(d) ==
    IF ~HasKey(d, "id") THEN "while"
    ELSE IF d["id"] \in DOMAIN detected_drones THEN "l257" ELSE "l262"

(* line 250: detection = self.detection_queue.get(timeout=1), an item is there *)
ConsumerGet ==
    /\ pcConsumer = "get"
    /\ detection_queue # <<>>
    /\ detection' = Head(detection_queue)
    /\ detection_queue' = Tail(detection_queue)
    /\ pcConsumer' = AfterGet(heap[Head(detection_queue)])
    /\ UNCHANGED <<heap, detected_drones, detection_history, stats, applied>>
    /\ UNCHANGED ConsumerVarsKept

(* lines 250, 278-279: the get times out, queue.Empty, continue *)
ConsumerEmpty ==
    /\ pcConsumer = "get"
    /\ detection_queue = <<>>
    /\ pcConsumer' = "while"
    /\ UNCHANGED <<heap, detection_queue, detected_drones, detection_history, stats,
                   detection, applied>>
    /\ UNCHANGED ConsumerVarsKept

(* line 257: the only field of the event that an existing track takes over *)
UpdateLastSeen(track, d) == SetItem(track, "last_seen", d["timestamp"])

(* Mutant of ConsumerUpdateLastSeen: the KeyError is not caught inside the   *)
(* loop and ends it                                                          *)
ConsumerUpdateLastSeenEscapes ==
    /\ pcConsumer = "l257"
    /\ LET d == heap[detection]
           t == detected_drones[d["id"]]
       IN IF ~HasKey(d, "timestamp")
          THEN /\ pcConsumer' = "done"
               /\ UNCHANGED heap
          ELSE /\ heap' = [heap EXCEPT ![t] = UpdateLastSeen(@, d)]
               /\ pcConsumer' = "l258"
    /\ UNCHANGED <<detection_queue, detected_drones, detection_history, stats,
                   detection, applied>>
    /\ UNCHANGED ConsumerVarsKept

(* line 257 *)
ConsumerUpdateLastSeen ==
    /\ pcConsumer = "l257"
    /\ LET d == heap[detection]
           t == detected_drones[d["id"]]
       IN IF ~HasKey(d, "timestamp")
          THEN /\ pcConsumer' = "while"
               /\ UNCHANGED heap
          ELSE /\ heap' = [heap EXCEPT ![t] = UpdateLastSeen(@, d)]
               /\ pcConsumer' = "l258"
    /\ UNCHANGED <<detection_queue, detected_drones, detection_history, stats,
                   detection, applied>>
    /\ UNCHANGED ConsumerVarsKept

(* line 258 *)
ConsumerUpdateDuration ==
    /\ pcConsumer = "l258"
    /\ LET t == detected_drones[heap[detection]["id"]]
       IN heap' = [heap EXCEPT ![t] = SetItem(@, "duration", @["duration"] + 1)]
    /\ pcConsumer' = "l259"
    /\ UNCHANGED <<detection_queue, detected_drones, detection_history, stats,
                   detection, applied>>
    /\ UNCHANGED ConsumerVarsKept

(* Mutant of BumpCount: the count is not incremented *)
BumpCountStuck(n) == n

(* line 259: the count after one more detection *)
BumpCount(n) == n + 1

(* line 259 *)
ConsumerUpdateCount ==
    /\ pcConsumer = "l259"
    /\ LET t == detected_drones[heap[detection]["id"]]
       IN heap' = [heap EXCEPT
                     ![t] = SetItem(@, "detection_count", BumpCount(@["detection_count"]))]
    /\ pcConsumer' = "l269"
    /\ UNCHANGED <<detection_queue, detected_drones, detection_history, stats,
                   detection, applied>>
    /\ UNCHANGED ConsumerVarsKept

(* lines 262-264: the dequeued dict itself becomes the track *)
NewTrack(d) ==
    SetItem(SetItem(SetItem(d, "first_seen", d["timestamp"]), "duration", 1),
            "detection_count", 1)

(* line 265: self.detected_drones[drone_id] = detection *)
Register(drones, id, ref) == SetItem(drones, id, ref)

(* lines 262-265: the dict is private to this thread until line 265 stores it *)
ConsumerInsert ==
    /\ pcConsumer = "l262"
    /\ LET d == heap[detection]
       IN IF ~HasKey(d, "timestamp")
          THEN /\ pcConsumer' = "while"
               /\ UNCHANGED <<heap, detected_drones>>
          ELSE /\ heap' = [heap EXCEPT ![detection] = NewTrack(d)]
               /\ detected_drones' = Register(detected_drones, d["id"], detection)
               /\ pcConsumer' = "l266"
    /\ UNCHANGED <<detection_queue, detection_history, stats, detection, applied>>
    /\ UNCHANGED ConsumerVarsKept

(* Mutant of AddUnique: the set is replaced, not extended *)
AddUniqueReplaces(ids, id) == {id}

(* line 266: set.add *)
AddUnique(ids, id) == ids \cup {id}

(* line 266 *)
ConsumerAddUnique ==
    /\ pcConsumer = "l266"
    /\ stats' = [stats EXCEPT !.unique_drones = AddUnique(@, heap[detection]["id"])]
    /\ pcConsumer' = "l269"
    /\ UNCHANGED <<heap, detection_queue, detected_drones, detection_history,
                   detection, applied>>
    /\ UNCHANGED ConsumerVarsKept

(* line 269 *)
ConsumerAppendHistory ==
    /\ pcConsumer = "l269"
    /\ detection_history' = Append(detection_history, detection)
    /\ pcConsumer' = "l270"
    /\ UNCHANGED <<heap, detection_queue, detected_drones, stats, detection, applied>>
    /\ UNCHANGED ConsumerVarsKept

(* line 270 *)
ConsumerCountTotal ==
    /\ pcConsumer = "l270"
    /\ stats' = [stats EXCEPT !.total_detections = @ + 1]
    /\ pcConsumer' = "l273"
    /\ UNCHANGED <<heap, detection_queue, detected_drones, detection_history,
                   detection, applied>>
    /\ UNCHANGED ConsumerVarsKept

(* Mutant of Truncate: keeps the first HistoryCap entries, [:1000] for [-1000:] *)
TruncateKeepsOldest(h) == IF Len(h) > HistoryCap THEN SubSeq(h, 1, HistoryCap) ELSE h

(* lines 273-274 *)
Truncate(h) == IF Len(h) > HistoryCap THEN LastN(h, HistoryCap) ELSE h

(* lines 273-276: the end of one iteration; the event has been applied *)
ConsumerTruncate ==
    /\ pcConsumer = "l273"
    /\ detection_history' = Truncate(detection_history)
    /\ applied' = Append(applied, detection)
    /\ pcConsumer' = "while"
    /\ UNCHANGED <<heap, detection_queue, detected_drones, stats, detection>>
    /\ UNCHANGED ConsumerVarsKept

Consumer ==
    \/ ConsumerWhile
    \/ ConsumerGet
    \/ ConsumerEmpty
    \/ ConsumerUpdateLastSeen
    \/ ConsumerUpdateDuration
    \/ ConsumerUpdateCount
    \/ ConsumerInsert
    \/ ConsumerAddUnique
    \/ ConsumerAppendHistory
    \/ ConsumerCountTotal
    \/ ConsumerTruncate

----------------------------------------------------------------------------
(* The main thread: start(), the statistics loop, stop() *)

(* lines 564-597: running is set and the threads are started *)
Start ==
    /\ pcMain = "init"
    /\ running' = TRUE
    /\ pcConsumer' = "while"
    /\ pcSdr' = "reading"
    /\ pcWifi' = "sniff"
    /\ pcApi' = "idle"
    /\ pcMain' = "loop"
    /\ UNCHANGED <<heap, detection_queue, detected_drones, detection_history, stats,
                   detection, apiLocal, saved, budget, applied, pendingAtStop, interrupted, readSince>>

(* Mutant of MainTick: the turn also drops every track from the registry *)
MainTickEvicts ==
    /\ pcMain = "loop"
    /\ running
    /\ \E now \in Timestamps : stats' = [stats EXCEPT !.last_update = now]
    /\ detected_drones' = [id \in {} |-> 0]
    /\ UNCHANGED <<running, heap, detection_queue, detection_history,
                   pcMain, pcConsumer, detection, pcSdr, pcWifi, pcApi, apiLocal, saved,
                   budget, applied, pendingAtStop, interrupted, readSince>>

(* lines 603-617: one turn of the statistics loop *)
MainTick ==
    /\ pcMain = "loop"
    /\ running
    /\ \E now \in Timestamps : stats' = [stats EXCEPT !.last_update = now]
    /\ UNCHANGED <<running, heap, detection_queue, detected_drones, detection_history,
                   pcMain, pcConsumer, detection, pcSdr, pcWifi, pcApi, apiLocal, saved,
                   budget, applied, pendingAtStop, interrupted, readSince>>

(* lines 619-625: KeyboardInterrupt in the loop; stop() clears running *)
Stop ==
    /\ pcMain = "loop"
    /\ running' = FALSE
    /\ pendingAtStop' = Range(detection_queue)
    /\ interrupted' = TRUE
    /\ pcMain' = "save"
    /\ UNCHANGED <<heap, detection_queue, detected_drones, detection_history, stats,
                   pcConsumer, detection, pcSdr, pcWifi, pcApi, apiLocal, saved, budget,
                   applied, readSince>>

(* lines 637-649: the stats of the document are read when the dict is built; *)
(* detected_drones and detection_history are passed by reference             *)
SaveDataBuild ==
    /\ pcMain = "save"
    /\ saved' = [kind |-> "building",
                 stats |-> [total_detections |-> stats.total_detections,
                            unique_drones |-> stats.unique_drones,
                            last_update |-> stats.last_update]]
    /\ pcMain' = "dump"
    /\ UNCHANGED <<running, heap, detection_queue, detected_drones, detection_history,
                   stats, pcConsumer, detection, pcSdr, pcWifi, pcApi, apiLocal, budget,
                   applied, pendingAtStop, interrupted, readSince>>

(* What a JSON encoder writes for a dict of detection dicts / a list of them *)
DumpDrones(drones) == [id \in DOMAIN drones |-> heap[drones[id]]]
DumpHistory(h) == [i \in 1..Len(h) |-> heap[h[i]]]

(* The document json.dump writes when it runs now: detected_drones and       *)
(* detection_history as they are at the dump, the stats as read at line 641  *)
SaveDataDocument ==
    [detected_drones |-> DumpDrones(detected_drones),
     detection_history |-> DumpHistory(detection_history),
     stats |-> saved.stats]

(* lines 651-655: json.dump writes the file *)
SaveDataDump ==
    /\ pcMain = "dump"
    /\ saved' = [kind |-> "file", stats |-> saved.stats]
    /\ pcMain' = "stopped"
    /\ UNCHANGED <<running, heap, detection_queue, detected_drones, detection_history,
                   stats, pcConsumer, detection, pcSdr, pcWifi, pcApi, apiLocal, budget,
                   applied, pendingAtStop, interrupted, readSince>>

----------------------------------------------------------------------------
(* The Flask thread: GET /api/drones *)

ApiVarsKept ==
    <<running, heap, detection_queue, detected_drones, detection_history, stats,
      pcMain, pcConsumer, detection, pcSdr, pcWifi, saved, budget, applied,
      pendingAtStop, interrupted>>

(* How far the consumer loop has come: the number of events applied and the  *)
(* statement it stands at inside an iteration.  Every statement of the loop  *)
(* that writes detected_drones, detection_history, stats or a dict changes   *)
(* this value, and no later step brings an earlier value back.               *)
ConsumerProgress ==
    <<Len(applied),
      IF pcConsumer \in {"off", "while", "get", "done"} THEN "idle" ELSE pcConsumer>>

(* line 519: list(self.detected_drones.values()): the track dicts, by reference *)
ApiDronesList ==
    /\ pcApi = "idle"
    /\ apiLocal' = [kind |-> "list",
                    drones_list |-> {detected_drones[id] : id \in DOMAIN detected_drones}]
    /\ pcApi' = "l520"
    /\ UNCHANGED ApiVarsKept

(* Mutant of ApiDronesBuild: total_drones is taken from stats['unique_drones'] *)
ApiDronesBuildCountsUnique ==
    /\ pcApi = "l520"
    /\ apiLocal' = [kind |-> "dict",
                    drones_list |-> apiLocal.drones_list,
                    total_drones |-> Cardinality(stats.unique_drones),
                    total_detections |-> stats.total_detections]
    /\ pcApi' = "jsonify"
    /\ UNCHANGED ApiVarsKept

(* lines 520-524: the dict handed to jsonify; total_detections is read here *)
ApiDronesBuild ==
    /\ pcApi = "l520"
    /\ apiLocal' = [kind |-> "dict",
                    drones_list |-> apiLocal.drones_list,
                    total_drones |-> Cardinality(apiLocal.drones_list),
                    total_detections |-> stats.total_detections]
    /\ pcApi' = "jsonify"
    /\ UNCHANGED ApiVarsKept

(* The body jsonify produces when it runs now: the track dicts are           *)
(* serialised as they are at that moment                                     *)
ApiDronesResponse ==
    [drones |-> [r \in apiLocal.drones_list |-> heap[r]],
     total_drones |-> apiLocal.total_drones,
     total_detections |-> apiLocal.total_detections]

(* line 520: jsonify serialises; the response leaves the process and the     *)
(* thread waits for the next request                                         *)
ApiDronesJsonify ==
    /\ pcApi = "jsonify"
    /\ apiLocal' = NoDoc
    /\ pcApi' = "idle"
    /\ UNCHANGED ApiVarsKept

ApiDrones ==
    \/ ApiDronesList
    \/ ApiDronesBuild
    \/ ApiDronesJsonify

Api == ApiDrones /\ UNCHANGED readSince

(* The system while it runs: the sensor threads and the consumer loop *)
NextIngest ==
    \/ Start
    \/ SdrCallback
    \/ WifiPacket
    \/ Consumer

(* The program while nothing fails: also the statistics loop, the handler *)
(* of /api/drones and the shutdown on Ctrl+C                              *)
Next ==
    \/ NextIngest
    \/ WifiBreak
    \/ MainTick
    \/ Stop
    \/ SaveDataBuild
    \/ SaveDataDump
    \/ Api

Spec == Init /\ [][Next]_vars

(* The ingestion path of the running system.  The actions left out write   *)
(* none of the variables the sensors and the consumer loop read, except    *)
(* running, which only stop() clears.                                      *)
SpecIngest == InitIngest /\ [][NextIngest]_vars

(* Every thread that can take a step eventually takes one; the sensors'   *)
(* inputs and Ctrl+C are not forced.  WifiBreak is the arrival of a       *)
(* packet, an input, and so are the blocks of samples of SdrCallback.     *)
FairSpec ==
    /\ Spec
    /\ WF_vars(Consumer)
    /\ WF_vars(MainTick)
    /\ WF_vars(SaveDataBuild)
    /\ WF_vars(SaveDataDump)
    /\ WF_vars(Api)

----------------------------------------------------------------------------
(* The program after PreLoad detections of one emitter have been applied:  *)
(* the state process_detections has built by then, all threads running and *)
(* the queue empty.                                                         *)

PreLoad == HistoryCap - 1

PreLoadId == "RF_2400_1000"

PreLoadSignal == CHOOSE sig \in Signals : sig.power > signal_threshold

PreLoadDetection == SdrDetection(PreLoadId, PreLoadSignal.power, ConstructionTime,
                                 PreLoadSignal.location)

(* The state after n detections of PreLoadId, n >= 2: the first dict is the *)
(* track, the others are only in the history                                 *)
LoadedTrack(n) ==
    [k \in DOMAIN PreLoadDetection \cup
           {"first_seen", "last_seen", "duration", "detection_count"} |->
        CASE k = "first_seen" -> ConstructionTime
          [] k = "last_seen" -> ConstructionTime
          [] k = "duration" -> n
          [] k = "detection_count" -> n
          [] OTHER -> PreLoadDetection[k]]

Loaded(n) ==
    /\ running = TRUE
    /\ heap = [i \in 1..n |-> IF i = 1 THEN LoadedTrack(n) ELSE PreLoadDetection]
    /\ detection_queue = <<>>
    /\ detected_drones = [id \in {PreLoadId} |-> 1]
    /\ detection_history = [i \in 1..n |-> i]
    /\ stats = [total_detections |-> n, unique_drones |-> {PreLoadId},
                last_update |-> ConstructionTime]
    /\ pcMain = "loop"
    /\ pcConsumer = "while"
    /\ detection = n
    /\ pcSdr = "reading"
    /\ pcWifi = "sniff"
    /\ pcApi = "idle"
    /\ apiLocal = NoDoc
    /\ saved = NoDoc
    /\ applied = [i \in 1..n |-> i]
    /\ pendingAtStop = {}
    /\ interrupted = FALSE
    /\ readSince = <<0, "idle">>

InitHist == Loaded(PreLoad) /\ budget = MaxEvents

(* Under SpecIngest the state Loaded(IngestEvents) is reached: the negation *)
(* of this predicate is violated there, which shows the shape of InitHist   *)
(* to be the one the program builds.                                        *)
LoadedIsReached == Loaded(IngestEvents)

(* The sensors and the consumer loop while the system runs *)
NextHist ==
    \/ SdrCallback
    \/ WifiPacket
    \/ Consumer

SpecHist == InitHist /\ [][NextHist]_vars

----------------------------------------------------------------------------
(* Events without 'id' or without 'timestamp'.  The sensors of this file     *)
(* always set both keys; detection_queue is a public attribute and the       *)
(* consumer reads whatever dict it is handed (lines 250-252), so such an     *)
(* event can only come from another caller of detection_queue.put.           *)

Without(d, k) == [x \in DOMAIN d \ {k} |-> d[x]]

MalformedSignal == CHOOSE sig \in Signals : sig.power > signal_threshold

MalformedEvents ==
    {Without(SdrDetection(id, MalformedSignal.power, ts, MalformedSignal.location), k) :
        id \in SdrIds, ts \in {ConstructionTime}, k \in {"id", "timestamp"}}

(* line 53: a put of a dict that lacks one of the keys *)
PutMalformed ==
    /\ running
    /\ budget > 0
    /\ \E d \in MalformedEvents : Enqueue(d)
    /\ UNCHANGED <<running, detected_drones, detection_history, stats, pcMain,
                   pcConsumer, detection, pcSdr, pcWifi, pcApi, apiLocal, saved,
                   applied, pendingAtStop, interrupted, readSince>>

NextMalformed ==
    \/ NextIngest
    \/ PutMalformed

SpecMalformed == InitIngest /\ [][NextMalformed]_vars

----------------------------------------------------------------------------
(* The Flask thread: GET /api/export *)

(* line 542: detection_history[-100:] *)
ExportHistoryLen == 100

(* lines 56-60: the Python types of the values of self.stats *)
StatsTypes ==
    [total_detections |-> "int", unique_drones |-> "set", last_update |-> "datetime"]

(* line 547: what flask.jsonify serialises.  Its JSON provider writes the    *)
(* JSON types and, through its default handler, dates, Decimal, UUID and     *)
(* dataclasses; for any other object, a set among them, it raises TypeError. *)
JsonifyAccepts(t) ==
    t \in {"int", "float", "str", "bool", "NoneType", "dict", "list", "tuple",
           "datetime", "Decimal", "UUID", "dataclass"}

(* lines 540-545: export_data; the slice copies the references of the last   *)
(* entries, detected_drones and stats are passed by reference                *)
ApiExportBuild ==
    /\ pcApi = "idle"
    /\ apiLocal' = [kind |-> "export",
                    detection_history |-> LastN(detection_history, ExportHistoryLen)]
    /\ pcApi' = "l547"
    /\ UNCHANGED ApiVarsKept

(* The response jsonify(export_data) produces when it runs now: the document *)
(* if every value can be serialised, else the 500 of the uncaught TypeError  *)
ApiExportResponse ==
    IF \A k \in DOMAIN StatsTypes : JsonifyAccepts(StatsTypes[k])
    THEN [status |-> 200,
          detected_drones |-> DumpDrones(detected_drones),
          detection_history |-> DumpHistory(apiLocal.detection_history),
          stats |-> stats]
    ELSE [status |-> 500, error |-> "TypeError"]

(* line 547: jsonify runs; the response leaves the process *)
ApiExportJsonify ==
    /\ pcApi = "l547"
    /\ apiLocal' = NoDoc
    /\ pcApi' = "idle"
    /\ UNCHANGED ApiVarsKept

(* The handlers with the history variable kept: it takes the consumer's      *)
(* progress at the first statement of each request                           *)
ApiDronesObserved ==
    \/ ApiDronesList /\ readSince' = ConsumerProgress
    \/ ApiDronesBuild /\ UNCHANGED readSince
    \/ ApiDronesJsonify /\ UNCHANGED readSince

ApiExport ==
    \/ ApiExportBuild /\ readSince' = ConsumerProgress
    \/ ApiExportJsonify /\ UNCHANGED readSince

(* The running system and its readers: the sensors, the consumer loop, the   *)
(* statistics loop and the two Flask handlers; no shutdown                   *)
NextReads ==
    \/ NextIngest
    \/ MainTick
    \/ ApiDronesObserved
    \/ ApiExport

SpecReads == Init /\ [][NextReads]_vars

(* GET /api/export on a history that is nearly full *)
NextHistExport ==
    \/ NextHist
    \/ ApiExport

SpecHistExport == InitHist /\ [][NextHistExport]_vars

----------------------------------------------------------------------------
(* Failures.  generate_map and save_data write files and iterate             *)
(* detected_drones while the consumer thread may insert into it; either can  *)
(* raise (OSError, RuntimeError).  Neither start() nor stop() catches an     *)
(* Exception: the only handlers are except KeyboardInterrupt in start()      *)
(* (line 619) and except Exception in main() (line 684), which calls         *)
(* detector.stop() again.                                                    *)

(* lines 606-610, 684-685: a turn of the statistics loop in which            *)
(* generate_map raises; the exception leaves start() and main() catches it   *)
GenerateMapFails ==
    /\ pcMain = "loop"
    /\ running
    /\ \E now \in Timestamps : stats' = [stats EXCEPT !.last_update = now]
    /\ pcMain' = "except"
    /\ UNCHANGED <<running, heap, detection_queue, detected_drones, detection_history,
                   pcConsumer, detection, pcSdr, pcWifi, pcApi, apiLocal, saved,
                   budget, applied, pendingAtStop, interrupted, readSince>>

(* lines 651-653 under stop() called at line 621: open or json.dump raises;  *)
(* the exception leaves stop() and start(), and main() catches it            *)
SaveDataFails ==
    /\ pcMain = "dump"
    /\ saved' = [kind |-> "failed"]
    /\ pcMain' = "except"
    /\ UNCHANGED <<running, heap, detection_queue, detected_drones, detection_history,
                   stats, pcConsumer, detection, pcSdr, pcWifi, pcApi, apiLocal, budget,
                   applied, pendingAtStop, interrupted, readSince>>

(* lines 686, 625: main()'s handler calls stop(), which clears running *)
MainStop ==
    /\ pcMain = "except"
    /\ running' = FALSE
    /\ pendingAtStop' = IF running THEN Range(detection_queue) ELSE pendingAtStop
    /\ pcMain' = "main_save"
    /\ UNCHANGED <<heap, detection_queue, detected_drones, detection_history, stats,
                   pcConsumer, detection, pcSdr, pcWifi, pcApi, apiLocal, saved, budget,
                   applied, interrupted, readSince>>

(* lines 637-649 under stop() called at line 686 *)
MainSaveDataBuild ==
    /\ pcMain = "main_save"
    /\ saved' = [kind |-> "building",
                 stats |-> [total_detections |-> stats.total_detections,
                            unique_drones |-> stats.unique_drones,
                            last_update |-> stats.last_update]]
    /\ pcMain' = "main_dump"
    /\ UNCHANGED <<running, heap, detection_queue, detected_drones, detection_history,
                   stats, pcConsumer, detection, pcSdr, pcWifi, pcApi, apiLocal, budget,
                   applied, pendingAtStop, interrupted, readSince>>

(* lines 651-655 under stop() called at line 686: the file is written *)
MainSaveDataDump ==
    /\ pcMain = "main_dump"
    /\ saved' = [kind |-> "file", stats |-> saved.stats]
    /\ pcMain' = "stopped"
    /\ UNCHANGED <<running, heap, detection_queue, detected_drones, detection_history,
                   stats, pcConsumer, detection, pcSdr, pcWifi, pcApi, apiLocal, budget,
                   applied, pendingAtStop, interrupted, readSince>>

(* lines 651-653 under stop() called at line 686: open or json.dump raises   *)
(* inside the handler of main(); nothing catches it and the process ends     *)
(* with a traceback                                                          *)
MainSaveDataFails ==
    /\ pcMain = "main_dump"
    /\ saved' = [kind |-> "failed"]
    /\ pcMain' = "crashed"
    /\ UNCHANGED <<running, heap, detection_queue, detected_drones, detection_history,
                   stats, pcConsumer, detection, pcSdr, pcWifi, pcApi, apiLocal, budget,
                   applied, pendingAtStop, interrupted, readSince>>

(* lines 112-118, 152-153: the SDR device fails; the thread's own handler    *)
(* prints the error and the thread ends                                      *)
SdrFails ==
    /\ pcSdr = "reading"
    /\ pcSdr' = "done"
    /\ UNCHANGED <<running, heap, detection_queue, detected_drones, detection_history,
                   stats, pcMain, pcConsumer, detection, pcWifi, pcApi, apiLocal, saved,
                   budget, applied, pendingAtStop, interrupted, readSince>>

(* lines 177-183, 220-221: the capture fails; the thread's own handler       *)
(* prints the error and the thread ends                                      *)
WifiFails ==
    /\ pcWifi = "sniff"
    /\ pcWifi' = "done"
    /\ UNCHANGED <<running, heap, detection_queue, detected_drones, detection_history,
                   stats, pcMain, pcConsumer, detection, pcSdr, pcApi, apiLocal, saved,
                   budget, applied, pendingAtStop, interrupted, readSince>>

(* The program with its failures, the Flask handlers left out *)
NextShutdown ==
    \/ NextIngest
    \/ WifiBreak
    \/ MainTick
    \/ Stop
    \/ SaveDataBuild
    \/ SaveDataDump
    \/ GenerateMapFails
    \/ SaveDataFails
    \/ MainStop
    \/ MainSaveDataBuild
    \/ MainSaveDataDump
    \/ MainSaveDataFails
    \/ SdrFails
    \/ WifiFails

SpecShutdown == Init /\ [][NextShutdown]_vars

----------------------------------------------------------------------------
(* Ctrl+C and save_data on a history that is nearly full *)
NextHistSave ==
    \/ NextHist
    \/ Stop
    \/ SaveDataBuild
    \/ SaveDataDump

SpecHistSave == InitHist /\ [][NextHistSave]_vars

----------------------------------------------------------------------------
(* Vocabulary of the properties *)

(* The consumer is between two iterations (or not running) *)
ConsumerIdle == pcConsumer \in {"off", "while", "get", "done"}

WellFormed(d) == HasKey(d, "id") /\ HasKey(d, "timestamp")

Refs == 1..Len(heap)

IdOf(r) == heap[r]["id"]

(* References of the applied events that carry emitter id `id`, in order *)
AppliedFor(id) == SelectSeq(applied, LAMBDA r : IdOf(r) = id)

AppliedIds == {IdOf(applied[i]) : i \in 1..Len(applied)}

DistinctIds(refs) ==
    \A r1, r2 \in refs : r1 # r2 => IdOf(r1) # IdOf(r2)

TrackOf(id) == heap[detected_drones[id]]

MaxOf(S) == CHOOSE x \in S : \A y \in S : y <= x
MinOf(S) == CHOOSE x \in S : \A y \in S : x <= y

RECURSIVE SumCounts(_, _)
SumCounts(f, D) ==
    IF D = {} THEN 0
    ELSE LET x == CHOOSE y \in D : TRUE
         IN f[x]["detection_count"] + SumCounts(f, D \ {x})

----------------------------------------------------------------------------
(* C1: when the sensor threads have enqueued events that all carry pairwise  *)
(* distinct emitter ids, then in every interleaving, once the queue is       *)
(* drained and the consumer is between iterations, the registry holds        *)
(* exactly one track per enqueued event, and that track is the event's dict. *)
C1_NoLostUpdate ==
    (/\ ConsumerIdle
     /\ detection_queue = <<>>
     /\ \A r \in Refs : WellFormed(heap[r])
     /\ DistinctIds(Refs))
    => /\ Cardinality(DOMAIN detected_drones) = Len(heap)
       /\ \A r \in Refs : IdOf(r) \in DOMAIN detected_drones
                          /\ detected_drones[IdOf(r)] = r

(* Both sensors have enqueued, IngestEvents events in all, ids distinct, queue drained *)
C1_Witness ==
    /\ ConsumerIdle
    /\ detection_queue = <<>>
    /\ Len(heap) = IngestEvents
    /\ DistinctIds(Refs)
    /\ \E r1, r2 \in Refs : heap[r1]["source"] = "SDR" /\ heap[r2]["source"] = "Wi-Fi"
    /\ Cardinality(DOMAIN detected_drones) = IngestEvents

(* C2: after n >= 1 events applied for one emitter id (among events of other *)
(* ids), the registry holds exactly one track of that id, under that id, and *)
(* its detection_count is n.                                                  *)
C2_CountIsApplied ==
    ConsumerIdle =>
        \A id \in AppliedIds :
            /\ id \in DOMAIN detected_drones
            /\ \A k \in DOMAIN detected_drones : (TrackOf(k)["id"] = id) <=> (k = id)
            /\ TrackOf(id)["detection_count"] = Len(AppliedFor(id))

(* Two events of one id applied, with an event of another id between them *)
C2_Witness ==
    /\ ConsumerIdle
    /\ Len(applied) = 3
    /\ IdOf(applied[1]) = IdOf(applied[3])
    /\ IdOf(applied[1]) # IdOf(applied[2])
    /\ TrackOf(IdOf(applied[1]))["detection_count"] = 2

(* C3: after an event is applied for an id that already has a track, the     *)
(* track's power and location are those of the most recently applied event   *)
(* of that id.                                                               *)
C3_MostRecentWins ==
    ConsumerIdle =>
        \A id \in AppliedIds :
            LET last == AppliedFor(id)[Len(AppliedFor(id))]
            IN /\ TrackOf(id)["power"] = heap[last]["power"]
               /\ TrackOf(id)["location"] = heap[last]["location"]

(* C4: every view a reader can take counts at least the tracks it shows:     *)
(* the tracks' detection_count sum to at most total_detections and, where    *)
(* the view has the unique emitters, the tracks are no more than those.      *)
C4_NoTornView ==
    /\ pcApi = "jsonify" =>
          SumCounts(ApiDronesResponse.drones, DOMAIN ApiDronesResponse.drones)
              <= ApiDronesResponse.total_detections
    /\ pcMain = "dump" =>
          /\ Cardinality(DOMAIN SaveDataDocument.detected_drones)
                <= Cardinality(SaveDataDocument.stats.unique_drones)
          /\ SumCounts(SaveDataDocument.detected_drones,
                       DOMAIN SaveDataDocument.detected_drones)
                <= SaveDataDocument.stats.total_detections

(* A capacity below the number of detections the sensors deliver *)
QueueCapacity == IngestEvents - 1

(* C5: the ingestion queue never holds more than its capacity C: a put on a  *)
(* queue of C events fails and leaves the queue as it is.                    *)
C5_QueueBounded ==
    Len(detection_queue) <= QueueCapacity

(* C6: when the consumer loop has exited after stop(), no event that was in  *)
(* the queue when running was cleared is still in the queue.                 *)
C6_DrainedAtExit ==
    pcConsumer = "done" => pendingAtStop \cap Range(detection_queue) = {}

(* C7: between iterations the history holds at most HistoryCap entries, and  *)
(* they are the most recently applied events in the order applied.           *)
C7_HistoryIsRecent ==
    ConsumerIdle =>
        /\ Len(detection_history) <= HistoryCap
        /\ detection_history = LastN(applied, HistoryCap)

(* HistoryCap + 1 events applied: the oldest is gone, the newest is there *)
C7_Witness ==
    /\ ConsumerIdle
    /\ Len(applied) = HistoryCap + 1
    /\ applied[1] \notin Range(detection_history)
    /\ applied[HistoryCap + 1] = detection_history[HistoryCap]
    /\ applied[2] = detection_history[1]

(* C8: after N events with pairwise distinct ids have been applied, the      *)
(* registry has N tracks and stats['unique_drones'] has N elements.          *)
C8_DistinctIds ==
    (ConsumerIdle /\ DistinctIds(Range(applied)))
    => /\ Cardinality(DOMAIN detected_drones) = Len(applied)
       /\ Cardinality(stats.unique_drones) = Len(applied)

(* IngestEvents events of distinct ids applied *)
C8_Witness ==
    /\ ConsumerIdle
    /\ Len(applied) = IngestEvents
    /\ DistinctIds(Range(applied))
    /\ Cardinality(stats.unique_drones) = IngestEvents

(* C9: for the events applied for one id, in whatever order of timestamps,   *)
(* the track's last_seen is the largest and its first_seen the smallest      *)
(* timestamp applied.                                                        *)
C9_SeenBounds ==
    ConsumerIdle =>
        \A id \in AppliedIds :
            LET times == {heap[r]["timestamp"] : r \in Range(AppliedFor(id))}
            IN /\ HasKey(TrackOf(id), "last_seen")
               /\ TrackOf(id)["last_seen"] = MaxOf(times)
               /\ TrackOf(id)["first_seen"] = MinOf(times)

(* C10: every track is eventually removed from the live registry once no     *)
(* further event arrives for it.                                             *)
C10_EventuallyEvicted ==
    \A id \in DroneIds :
        [](id \in DOMAIN detected_drones => <>(id \notin DOMAIN detected_drones))

(* C17: once exactly one event has been applied for an id, the track of that *)
(* id has first_seen and last_seen both set, both equal to the timestamp of  *)
(* that event, and detection_count = 1.                                      *)
C17_NewTrackSeen ==
    ConsumerIdle =>
        \A id \in AppliedIds :
            Len(AppliedFor(id)) = 1 =>
                LET ts == heap[AppliedFor(id)[1]]["timestamp"]
                IN /\ HasKey(TrackOf(id), "first_seen")
                   /\ HasKey(TrackOf(id), "last_seen")
                   /\ TrackOf(id)["first_seen"] = ts
                   /\ TrackOf(id)["last_seen"] = ts
                   /\ TrackOf(id)["detection_count"] = 1

(* C18: the dict of an entry of detection_history never changes once the     *)
(* entry is in the list, whatever is applied later for the same id.          *)
C18_HistoryImmutable ==
    [][\A r \in Range(detection_history) : heap'[r] = heap[r]]_vars

(* C13: an event that lacks 'id' or 'timestamp' is rejected.  No step the    *)
(* consumer takes while it holds such an event changes detected_drones,      *)
(* detection_history, stats or any dict already allocated, whether or not    *)
(* the event's id has a track; the step that meets the missing key returns   *)
(* to the head of the loop; such an event is never counted as applied; and   *)
(* once the queue is drained every well-formed event has been applied.       *)
Handled == IF pcConsumer = "get" /\ detection_queue # <<>>
           THEN Head(detection_queue) ELSE detection

HandlesMalformed ==
    /\ \/ pcConsumer = "get" /\ detection_queue # <<>>
       \/ ~ConsumerIdle
    /\ ~WellFormed(heap[Handled])

C13_RejectStep ==
    (HandlesMalformed /\ pcConsumer' # pcConsumer) =>
        /\ UNCHANGED <<detected_drones, detection_history, stats>>
        /\ \A r \in Refs : heap'[r] = heap[r]
        /\ \/ pcConsumer' = "while"
           \/ /\ pcConsumer = "get"
              /\ HasKey(heap[Handled], "id")
              /\ pcConsumer' \in {"l257", "l262"}

C13_LoopGoesOn ==
    /\ \A r \in Range(applied) : WellFormed(heap[r])
    /\ (ConsumerIdle /\ detection_queue = <<>>) =>
           \A r \in Refs : WellFormed(heap[r]) => r \in Range(applied)

C13_MalformedRejected == [][C13_RejectStep]_vars /\ []C13_LoopGoesOn

(* Three events: a malformed one whose id has a track was met and rejected   *)
(* between two well-formed ones that were applied                            *)
C13_Witness ==
    /\ ConsumerIdle
    /\ Len(heap) = IngestEvents
    /\ Len(applied) = IngestEvents - 1
    /\ \E r \in Refs :
          /\ ~HasKey(heap[r], "timestamp")
          /\ IdOf(r) \in DOMAIN detected_drones
          /\ r < applied[Len(applied)]
          /\ r > applied[1]
          /\ IdOf(applied[1]) = IdOf(r)

(* C14: a read of /api/drones during which the consumer loop applies nothing *)
(* returns the tracks and totals of the registry and stats as they stand, so *)
(* two such reads with no Apply between them return equal content, whatever  *)
(* the statistics loop and the sensors do meanwhile; and no step of a Flask  *)
(* handler changes detected_drones, detection_history, stats or a dict.      *)
SnapshotNow ==
    [drones |-> [r \in {detected_drones[id] : id \in DOMAIN detected_drones} |-> heap[r]],
     total_drones |-> Cardinality(DOMAIN detected_drones),
     total_detections |-> stats.total_detections]

C14_ReadIsSnapshot ==
    (pcApi = "jsonify" /\ readSince = ConsumerProgress) => ApiDronesResponse = SnapshotNow

C14_ReadStep ==
    pcApi' # pcApi => UNCHANGED <<detected_drones, detection_history, stats, heap>>

C15_ExportCounts ==
    /\ (pcApi = "l547" /\ ConsumerIdle /\ readSince = ConsumerProgress) =>
          /\ ApiExportResponse.status = 200
          /\ Cardinality(DOMAIN ApiExportResponse.detected_drones)
                = Cardinality(AppliedIds)
          /\ ApiExportResponse.stats.total_detections = Len(applied)
    /\ (/\ pcMain = "dump"
        /\ ConsumerIdle
        /\ saved.stats.total_detections = stats.total_detections) =>
          /\ Cardinality(DOMAIN SaveDataDocument.detected_drones)
                = Cardinality(AppliedIds)
          /\ SaveDataDocument.stats.total_detections = Len(applied)

(* C16: the history of every export document is the whole of                 *)
(* detection_history as retained when the document is built, oldest first,   *)
(* and building it leaves detection_history as it was.                       *)
C16_ExportStep ==
    /\ (pcApi = "idle" /\ pcApi' = "l547") =>
          /\ apiLocal'.detection_history = detection_history
          /\ detection_history' = detection_history
    /\ (pcMain = "save" /\ pcMain' = "dump") =>
          /\ SaveDataDocument'.detection_history = DumpHistory(detection_history)
          /\ detection_history' = detection_history

C16_ExportHasHistory == [][C16_ExportStep]_vars

(* C11: whenever stop() was reached, from the handler of start() or from the *)
(* handler of main(), and the process has come to its end, save_data has     *)
(* written the export file.                                                  *)
C11_FinalExport ==
    pcMain \in {"stopped", "crashed"} => saved.kind = "file"

(* C12: a save_data that raises never ends the process with an uncaught      *)
(* exception.                                                                *)
C12_SaveFailureNotFatal ==
    saved.kind = "failed" => pcMain # "crashed"

(* C19: the consumer loop ends only after a shutdown the operator asked for; *)
(* no failure of map generation, of a sensor thread or of one Apply ends it. *)
C19_OnlyShutdownStops ==
    pcConsumer = "done" => interrupted

(* C20: once stop() has cleared running, the consumer loop, the SDR thread   *)
(* and the Wi-Fi loop all come to their end, each thread taking its steps    *)
(* and no further packet or block of samples being assumed.                  *)
C20_LoopsTerminate ==
    (~running /\ pcMain # "init")
        ~> (pcConsumer = "done" /\ pcSdr = "done" /\ pcWifi = "done")

(* C21: every step that changes detected_drones or the dict of a track       *)
(* stored in it is a step of the consumer loop inside an iteration: no       *)
(* sensor thread, Flask handler or turn of the statistics loop writes them.  *)
(* And the consumer thread is started once only, by start(), which main()    *)
(* calls once.                                                               *)
TrackRefs == {detected_drones[id] : id \in DOMAIN detected_drones}

C21_WriteStep ==
    (\/ detected_drones' # detected_drones
     \/ \E r \in TrackRefs : heap'[r] # heap[r])
    => /\ ~ConsumerIdle
       /\ pcConsumer' # pcConsumer
       /\ UNCHANGED <<pcMain, pcSdr, pcWifi, pcApi, apiLocal>>

C21_ThreadStep ==
    /\ pcConsumer' = "off" => pcConsumer = "off"
    /\ pcMain' = "init" => pcMain = "init"
    /\ (pcConsumer = "off" /\ pcConsumer' # "off") =>
          (pcMain = "init" /\ pcMain' # "init" /\ pcConsumer' = "while")

C21_OnlyConsumerWrites == [][C21_WriteStep /\ C21_ThreadStep]_vars

(* A track created and then updated by the consumer loop, while a Flask      *)
(* handler holds its list of tracks and the statistics loop has run          *)
C21_Witness ==
    /\ \E id \in DOMAIN detected_drones : TrackOf(id)["detection_count"] = MaxEvents
    /\ pcApi = "jsonify"
    /\ stats.last_update # ConstructionTime
    /\ pcConsumer = "l269"

(* C22: in every reachable state every track of the registry is stored under *)
(* its own id, has detection_count >= 1 and, where it has a last_seen, that  *)
(* last_seen is not before its first_seen; and no step makes the last_seen   *)
(* of a track smaller.                                                       *)
C22_KeyAndCount ==
    \A id \in DOMAIN detected_drones :
        /\ TrackOf(id)["id"] = id
        /\ TrackOf(id)["detection_count"] >= 1

C22_SeenOrdered ==
    \A id \in DOMAIN detected_drones :
        HasKey(TrackOf(id), "last_seen") =>
            TrackOf(id)["last_seen"] >= TrackOf(id)["first_seen"]

C22_SeenStep ==
    \A id \in DOMAIN detected_drones :
        HasKey(TrackOf(id), "last_seen") =>
            heap'[detected_drones'[id]]["last_seen"] >= TrackOf(id)["last_seen"]

C22_TrackInvariants ==
    /\ [](C22_KeyAndCount /\ C22_SeenOrdered)
    /\ [][C22_SeenStep]_vars

(* C23: whenever api_export takes its slice of detection_history, and        *)
(* whenever save_data is about to write the list, the list holds at most     *)
(* HistoryCap entries.                                                       *)
C23_ExportReads ==
    (pcApi = "idle" /\ pcApi' = "l547") => Len(detection_history) <= HistoryCap

C23_SaveReads ==
    pcMain = "dump" => Len(SaveDataDocument.detection_history) <= HistoryCap

C23_ReaderSeesCap == [][C23_ExportReads]_vars /\ []C23_SaveReads

(* C24: while save_data, called by stop(), reads detected_drones,            *)
(* detection_history and stats, the consumer loop is not inside an Apply and *)
(* cannot start one; and the document written counts the same events in its *)
(* tracks, its history and its total.                                        *)
C24_ConsumerQuiet ==
    pcMain \in {"save", "dump"} => pcConsumer \in {"while", "done"}

C24_SameEvents ==
    pcMain = "dump" =>
        LET doc == SaveDataDocument
        IN /\ doc.stats.total_detections = Len(doc.detection_history)
           /\ SumCounts(doc.detected_drones, DOMAIN doc.detected_drones)
                 = Len(doc.detection_history)
           /\ DOMAIN doc.detected_drones = doc.stats.unique_drones

C24_ExportQuiescent == C24_ConsumerQuiet /\ C24_SameEvents

====
